---- MODULE Spec2Model ----
(***************************************************************************)
(* Model of the label-encoding layer of mpz-garble-core                    *)
(* (src/garble/mpz-garble-core/src/encoding/mod.rs).                       *)
(*                                                                         *)
(* A Block is a BlockBits-wide bit vector (128 in the program), a Label    *)
(* and a Delta wrap one Block, and Labels<N, S> is an Arc-shared array of  *)
(* N labels together with a state S that is Full {delta} or Active.        *)
(* The state machine keeps the live collection handles (colls), the        *)
(* reference-counted arrays they point to (store), and the record of the   *)
(* last operation (ret).  Every operation is an action; the specifications *)
(* at the end run the operations of one part of the interface each.        *)
(***************************************************************************)
EXTENDS Integers, Sequences, FiniteSets

\* ------------------------------------------------------------------ bounds
BlockBits == 2      \* width of a Block in bits (128 in the program)
N == 2              \* const generic N: wires per collection
MaxColls == 4       \* live collection handles at any time
MaxNew == 2         \* collections built from raw labels (Full::new, Active::new)
MaxWork == 5        \* collections made in a run, one built from raw labels counted twice
MaxGateLabel == 2   \* largest low label of the two collections a gate starts from
MaxGates == 2       \* gates of a raw circuit

\* ------------------------------------------------------- Block primitive
RECURSIVE Pow2(_)
Pow2(n) == IF n = 0 THEN 1 ELSE 2 * Pow2(n - 1)

Block == 0 .. (Pow2(BlockBits) - 1)

Wires == 0 .. (N - 1)

Plain == 0 .. (Pow2(N) - 1)

\* bit i of a non-negative integer, bit 0 the least significant
Bit(v, i) == (v \div Pow2(i)) % 2

RECURSIVE XorBits(_, _, _)
XorBits(a, b, n) ==
    IF n = 0 THEN 0
    ELSE (((a % 2) + (b % 2)) % 2) + (2 * XorBits(a \div 2, b \div 2, n - 1))

\* Block ^ Block
BlockXor(a, b) == XorBits(a, b, BlockBits)

\* Block::lsb
lsb(b) == b % 2

\* Block::set_lsb
set_lsb(b) == IF b % 2 = 1 THEN b ELSE b + 1

\* ------------------------------------------------------- Label and Delta
\* impl BitXor<Label> for Label (and the two reference variants)
LabelXor(a, b) == BlockXor(a, b)

\* impl BitXor<Delta> for Label / &Label
LabelXorDelta(l, d) == BlockXor(l, d)

\* slip: the most significant bit is read
pointer_bit_msb(l) == Bit(l, BlockBits - 1) = 1

\* Label::pointer_bit
pointer_bit(l) == lsb(l) = 1

\* slip: the drawn block is used as it is, set_lsb left out
DeltaRandomNoSetLsb(r) == r

\* Delta::random, r the block drawn from the rng
DeltaRandom(r) == set_lsb(r)

\* the values of type Delta: its field is private, Delta::random is its constructor
Delta == {DeltaRandom(r) : r \in Block}

\* ----------------------------------------------------------- state types
\* state::Full { delta }
FullState(d) == [tag |-> "Full", delta |-> d]

\* state::Active
ActiveState == [tag |-> "Active"]

\* ------------------------------------------------------ Labels<N, state>
\* slip: only the low label is accepted
LabelMatchesLowOnly(active, low, high) == active = low

\* slip: only the high label is accepted
LabelMatchesHighOnly(active, low, high) == active = high

\* the test of one wire in verify: active == low || active == &high
LabelMatches(active, low, high) == active = low \/ active = high

\* the loop of Labels<N, Full>::verify from wire i on, with its early return
RECURSIVE verifyFrom(_, _, _, _)
verifyFrom(i, labels, d, active) ==
    IF i = N THEN "Ok"
    ELSE LET low == labels[i]
             high == LabelXorDelta(low, d)
         IN IF ~LabelMatches(active[i], low, high)
            THEN "InvalidActiveEncoding"
            ELSE verifyFrom(i + 1, labels, d, active)

\* Labels<N, Full>::verify(&self, active), on collection values
verify(self, active) == verifyFrom(0, self.labels, self.state.delta, active.labels)

\* Labels<N, Full>::iter_blocks: [low, low ^ delta] for every wire
iter_blocks(self) ==
    [i \in Wires |-> <<self.labels[i], BlockXor(self.labels[i], self.state.delta)>>]

\* slip: the labels of self are dropped, those of rhs returned
FullBitXorRhsOnly(self, rhs) ==
    [state |-> self.state,
     labels |-> [i \in Wires |-> rhs.labels[i]]]

\* slip: the deltas of the operands are XORed like their labels
FullBitXorDeltaToo(self, rhs) ==
    [state |-> FullState(BlockXor(self.state.delta, rhs.state.delta)),
     labels |-> [i \in Wires |-> LabelXor(self.labels[i], rhs.labels[i])]]

\* the body shared by the four BitXor impls on Labels<N, Full>
FullBitXor(self, rhs) ==
    [state |-> self.state,
     labels |-> [i \in Wires |-> LabelXor(self.labels[i], rhs.labels[i])]]

\* slip: every wire is XORed with the first label of rhs
ActiveBitXorFirstWire(self, rhs) ==
    [state |-> self.state,
     labels |-> [i \in Wires |-> LabelXor(self.labels[i], rhs.labels[0])]]

\* slip: the result is given a Full state, its delta a label of rhs
ActiveBitXorAsFull(self, rhs) ==
    [state |-> [tag |-> "Full", delta |-> rhs.labels[0]],
     labels |-> [i \in Wires |-> LabelXor(self.labels[i], rhs.labels[i])]]

\* the body shared by the four BitXor impls on Labels<N, Active>
ActiveBitXor(self, rhs) ==
    [state |-> self.state,
     labels |-> [i \in Wires |-> LabelXor(self.labels[i], rhs.labels[i])]]

\* ------------------------------------------------- EncodedValue (value.rs)
\* select: wire i carries low[i] when bit i of x is 0, low[i] ^ delta when it is 1
select(self, x) ==
    [state |-> ActiveState,
     labels |-> [i \in Wires |->
                    IF Bit(x, i) = 1 THEN LabelXorDelta(self.labels[i], self.state.delta)
                    ELSE self.labels[i]]]

\* decoding: the pointer bits of the low labels
decoding(self) == [i \in Wires |-> pointer_bit(self.labels[i])]

RECURSIVE FromBits(_, _)
FromBits(bits, i) ==
    IF i = N THEN 0
    ELSE (IF bits[i] THEN Pow2(i) ELSE 0) + FromBits(bits, i + 1)

\* decode: bit i is pointer_bit(active[i]) ^ decoding[i], reassembled LSB first
decode(active, d) ==
    FromBits([i \in Wires |-> pointer_bit(active.labels[i]) # d[i]], 0)

\* ------------------------------------------------------------ the heap
LabelArray == [Wires -> Block]

ArcId == 1 .. (MaxColls + 1)

VARIABLES
    store,      \* Arc storage: live arc id -> [Label; N]
    colls,      \* live handles: sequence of [state, labels (an arc id)]
    nNew,       \* number of collections built from raw labels so far
    nMade,      \* number of collections made so far
    origin,     \* history: for each live handle, the operation that produced it
    ret         \* the last operation: its name, operands (by value) and result

\* the locals of one call of parse_raw_circuit (examples/bmr16_demo.rs)
VARIABLES
    circ_gates, \* circ.gates, the gate list of the raw circuit
    gi,         \* position of the for loop: index of the next gate
    config,     \* CircuitConfig: input_a_vars, input_b_vars, outputs
    used_vars,  \* HashMap<u32, CrtRepr>: node id -> wire of the built circuit
    builder,    \* ArithmeticCircuitBuilder: inputs, gates and outputs added
    output,     \* Option<CrtRepr>: << >> is None, <<w>> is Some(w)
    o,          \* id of the gate output last recorded
    status      \* "idle" (no call), "loop", "built", or the panic message

parseVars == <<circ_gates, gi, config, used_vars, builder, output, o, status>>

heapVars == <<store, colls, nNew, nMade, origin, ret>>

vars == <<store, colls, nNew, nMade, origin, ret, parseVars>>

Handles == 1 .. Len(colls)

IsFull(h) == h.state.tag = "Full"

IsActive(h) == h.state.tag = "Active"

\* the value a handle denotes; derive(PartialEq) compares state and array contents
Val(h) == [state |-> h.state, labels |-> store[h.labels]]

\* Arc::new: the allocation is made while every operand is still alive
FreshArc == CHOOSE a \in ArcId \ DOMAIN store : \A b \in ArcId \ DOMAIN store : a <= b

\* sequence s without its positions in the set drop
RECURSIVE Without(_, _)
Without(s, drop) ==
    IF s = <<>> THEN <<>>
    ELSE LET rest == Without(Tail(s), {i - 1 : i \in drop \ {1}})
         IN IF 1 \in drop THEN rest ELSE <<Head(s)>> \o rest

\* storage after the handles are dropped: an array dies with its last handle
Release(st, cs) == [a \in {cs[i].labels : i \in 1 .. Len(cs)} |-> st[a]]

\* no call of parse_raw_circuit is in progress
NoParse ==
    /\ circ_gates = << >>
    /\ gi = 0
    /\ config = [input_a_vars |-> << >>, input_b_vars |-> << >>, outputs |-> << >>]
    /\ used_vars = << >>
    /\ builder = [inputs |-> 0, gates |-> << >>, outputs |-> << >>]
    /\ output = << >>
    /\ o = 0
    /\ status = "idle"

Init ==
    /\ store = << >>
    /\ colls = << >>
    /\ nNew = 0
    /\ nMade = 0
    /\ origin = << >>
    /\ ret = [op |-> "init"]
    /\ NoParse

\* slip: the result is written into the array of an operand taken by value
PushInPlace(v, by, drop) ==
    LET a == IF drop = {} THEN FreshArc ELSE colls[CHOOSE k \in drop : TRUE].labels
        h == [state |-> v.state, labels |-> a]
        st == [x \in DOMAIN store \cup {a} |-> IF x = a THEN v.labels ELSE store[x]]
        cs == Without(Append(colls, h), drop)
    IN /\ nMade + nNew < MaxWork
       /\ nMade' = nMade + 1
       /\ store' = Release(st, cs)
       /\ colls' = cs
       /\ origin' = Without(Append(origin, by), drop)
       /\ UNCHANGED parseVars

\* a new collection with value v is allocated and its handle pushed; then the
\* handles at the positions in drop (operands taken by value) are dropped
Push(v, by, drop) ==
    LET a == FreshArc
        h == [state |-> v.state, labels |-> a]
        st == [x \in DOMAIN store \cup {a} |-> IF x = a THEN v.labels ELSE store[x]]
        cs == Without(Append(colls, h), drop)
    IN /\ nMade + nNew < MaxWork
       /\ nMade' = nMade + 1
       /\ store' = Release(st, cs)
       /\ colls' = cs
       /\ origin' = Without(Append(origin, by), drop)
       /\ UNCHANGED parseVars

\* Delta::random(rng)
DoDeltaRandom ==
    \E r \in Block :
        /\ ret' = [op |-> "Delta::random", rng |-> r, out |-> DeltaRandom(r)]
        /\ UNCHANGED <<store, colls, nNew, nMade, origin, parseVars>>

\* Labels<N, Full>::new(delta, labels)
FullNew ==
    /\ Len(colls) < MaxColls
    /\ nNew < MaxNew
    /\ nMade + nNew + 1 < MaxWork
    /\ \E d \in Delta, labels \in LabelArray :
        LET v == [state |-> FullState(d), labels |-> labels]
        IN /\ Push(v, "new", {})
           /\ ret' = [op |-> "Full::new", out |-> v, arc |-> FreshArc]
    /\ nNew' = nNew + 1

\* Labels<N, Active>::new(labels)
ActiveNew ==
    /\ Len(colls) < MaxColls
    /\ nNew < MaxNew
    /\ nMade + nNew + 1 < MaxWork
    /\ \E labels \in LabelArray :
        LET v == [state |-> ActiveState, labels |-> labels]
        IN /\ Push(v, "new", {})
           /\ ret' = [op |-> "Active::new", out |-> v, arc |-> FreshArc]
    /\ nNew' = nNew + 1

\* derive(Clone): the state is copied, the Arc is shared
Clone ==
    /\ Len(colls) < MaxColls
    /\ nMade + nNew < MaxWork
    /\ nMade' = nMade + 1
    /\ \E i \in Handles :
        /\ colls' = Append(colls, colls[i])
        /\ origin' = Append(origin, "clone")
        /\ ret' = [op |-> "clone", selfIx |-> i, self |-> Val(colls[i]),
                   out |-> Val(colls[i]), arc |-> colls[i].labels]
    /\ UNCHANGED <<store, nNew, parseVars>>

\* Labels<N, Full>::verify(&self, active)
Verify ==
    \E i, j \in Handles :
        /\ IsFull(colls[i])
        /\ IsActive(colls[j])
        /\ ret' = [op |-> "verify", selfIx |-> i, rhsIx |-> j,
                   selfArc |-> colls[i].labels, rhsArc |-> colls[j].labels,
                   self |-> Val(colls[i]), rhs |-> Val(colls[j]),
                   out |-> verify(Val(colls[i]), Val(colls[j]))]
        /\ UNCHANGED <<store, colls, nNew, nMade, origin, parseVars>>

\* Labels<N, Full>::iter_blocks(&self), collected
IterBlocks ==
    \E i \in Handles :
        /\ IsFull(colls[i])
        /\ ret' = [op |-> "iter_blocks", selfIx |-> i, self |-> Val(colls[i]),
                   out |-> iter_blocks(Val(colls[i]))]
        /\ UNCHANGED <<store, colls, nNew, nMade, origin, parseVars>>

\* one BitXor call: operands i and j, those in drop taken by value
XorCall(name, i, j, drop, out) ==
    /\ Push(out, "xor", drop)
    /\ ret' = [op |-> name, selfIx |-> i, rhsIx |-> j, moved |-> drop,
               selfArc |-> colls[i].labels, rhsArc |-> colls[j].labels,
               self |-> Val(colls[i]), rhs |-> Val(colls[j]),
               out |-> out, arc |-> FreshArc]
    /\ UNCHANGED nNew

\* impl BitXor for Labels<N, Full>: self ^ rhs
FullXor ==
    \E i, j \in Handles :
        /\ i # j /\ IsFull(colls[i]) /\ IsFull(colls[j])
        /\ XorCall("Full ^ Full", i, j, {i, j}, FullBitXor(Val(colls[i]), Val(colls[j])))

\* impl BitXor for &Labels<N, Full>: &self ^ &rhs
FullXorRefRef ==
    /\ Len(colls) < MaxColls
    /\ \E i, j \in Handles :
        /\ IsFull(colls[i]) /\ IsFull(colls[j])
        /\ XorCall("&Full ^ &Full", i, j, {}, FullBitXor(Val(colls[i]), Val(colls[j])))

\* impl BitXor<&Self> for Labels<N, Full>: self ^ &rhs
FullXorValRef ==
    \E i, j \in Handles :
        /\ i # j /\ IsFull(colls[i]) /\ IsFull(colls[j])
        /\ XorCall("Full ^ &Full", i, j, {i}, FullBitXor(Val(colls[i]), Val(colls[j])))

\* impl BitXor<Labels<N, Full>> for &Labels<N, Full>: &self ^ rhs
FullXorRefVal ==
    \E i, j \in Handles :
        /\ i # j /\ IsFull(colls[i]) /\ IsFull(colls[j])
        /\ XorCall("&Full ^ Full", i, j, {j}, FullBitXor(Val(colls[i]), Val(colls[j])))

\* impl BitXor for Labels<N, Active>: self ^ rhs
ActiveXor ==
    \E i, j \in Handles :
        /\ i # j /\ IsActive(colls[i]) /\ IsActive(colls[j])
        /\ XorCall("Active ^ Active", i, j, {i, j},
                   ActiveBitXor(Val(colls[i]), Val(colls[j])))

\* impl BitXor for &Labels<N, Active>: &self ^ &rhs
ActiveXorRefRef ==
    /\ Len(colls) < MaxColls
    /\ \E i, j \in Handles :
        /\ IsActive(colls[i]) /\ IsActive(colls[j])
        /\ XorCall("&Active ^ &Active", i, j, {},
                   ActiveBitXor(Val(colls[i]), Val(colls[j])))

\* impl BitXor<&Self> for Labels<N, Active>: self ^ &rhs
ActiveXorValRef ==
    \E i, j \in Handles :
        /\ i # j /\ IsActive(colls[i]) /\ IsActive(colls[j])
        /\ XorCall("Active ^ &Active", i, j, {i},
                   ActiveBitXor(Val(colls[i]), Val(colls[j])))

\* impl BitXor<Labels<N, Active>> for &Labels<N, Active>: &self ^ rhs
ActiveXorRefVal ==
    \E i, j \in Handles :
        /\ i # j /\ IsActive(colls[i]) /\ IsActive(colls[j])
        /\ XorCall("&Active ^ Active", i, j, {j},
                   ActiveBitXor(Val(colls[i]), Val(colls[j])))

\* EncodedValue<Full>::select(x)
Select ==
    /\ Len(colls) < MaxColls
    /\ \E i \in Handles, x \in Plain :
        /\ IsFull(colls[i])
        /\ Push(select(Val(colls[i]), x), "select", {})
        /\ ret' = [op |-> "select", selfIx |-> i, self |-> Val(colls[i]), x |-> x,
                   out |-> select(Val(colls[i]), x), arc |-> FreshArc]
    /\ UNCHANGED nNew

\* EncodedValue<Full>::decoding()
Decoding ==
    \E i \in Handles :
        /\ IsFull(colls[i])
        /\ ret' = [op |-> "decoding", selfIx |-> i, self |-> Val(colls[i]),
                   out |-> decoding(Val(colls[i]))]
        /\ UNCHANGED <<store, colls, nNew, nMade, origin, parseVars>>

\* EncodedValue<Active>::decode(decoding), the Decoding that of a live Full value
Decode ==
    \E i, f \in Handles :
      LET d == decoding(Val(colls[f])) IN
        /\ IsActive(colls[i])
        /\ IsFull(colls[f])
        /\ ret' = [op |-> "decode", selfIx |-> i, self |-> Val(colls[i]),
                   decoding |-> d, out |-> decode(Val(colls[i]), d)]
        /\ UNCHANGED <<store, colls, nNew, nMade, origin, parseVars>>

\* verification of received labels: construction, selection, verify
NextVerify ==
    \/ DoDeltaRandom
    \/ FullNew
    \/ ActiveNew
    \/ Select
    \/ Verify

SpecVerify == Init /\ [][NextVerify]_vars

\* the collection algebra: construction, cloning, the eight BitXor impls,
\* verify and iter_blocks
NextXor ==
    \/ FullNew
    \/ ActiveNew
    \/ Clone
    \/ Verify
    \/ IterBlocks
    \/ FullXor
    \/ FullXorRefRef
    \/ FullXorValRef
    \/ FullXorRefVal
    \/ ActiveXor
    \/ ActiveXorRefRef
    \/ ActiveXorValRef
    \/ ActiveXorRefVal

SpecXor == Init /\ [][NextXor]_vars

\* the evaluator's side: construction, selection, XOR of the active labels,
\* verify, decoding and decode
NextEval ==
    \/ FullNew
    \/ Select
    \/ Clone
    \/ ActiveXor
    \/ ActiveXorRefRef
    \/ ActiveXorValRef
    \/ ActiveXorRefVal
    \/ Verify
    \/ Decoding
    \/ Decode

SpecEval == Init /\ [][NextEval]_vars

GateArray == [Wires -> {b \in Block : b <= MaxGateLabel}]

\* the garbler holds two Full collections A and B made by one encoder, that
\* is under one Delta, each in its own array; the counters count what the run
\* makes from there
InitGate ==
    \E d \in Delta, la \in GateArray, lb \in GateArray :
        /\ store = <<la, lb>>
        /\ colls = <<[state |-> FullState(d), labels |-> 1],
                     [state |-> FullState(d), labels |-> 2]>>
        /\ nNew = 0
        /\ nMade = 0
        /\ origin = <<"new", "new">>
        /\ ret = [op |-> "init"]
        /\ NoParse

\* a Free-XOR gate on two wires' values: selection on each input, XOR of the
\* active labels by the evaluator, XOR of the Full collections by the garbler,
\* verify of the gate's output
NextGate ==
    \/ Select
    \/ ActiveXor
    \/ FullXorRefRef
    \/ Verify

SpecGate == InitGate /\ [][NextGate]_vars

\* ------------------------------------------- examples/bmr16_demo.rs parser
\* A String is a sequence of tokens (a dotted name, or the separator ","),
\* white space left out.
input_a_names ==
    << <<"0.input_A", ",", "0.w0", ",", "0.b0", ",", "0.w1", ",", "0.b1", ",">> >>

input_b_names == << <<"0.input_B">> >>

output_names == << <<"0.ip">> >>

\* str::contains: pat occurs in s as a contiguous run
contains(s, pat) ==
    \E k \in 0 .. (Len(s) - Len(pat)) : SubSeq(s, k + 1, k + Len(pat)) = pat

\* the variants of AGateType
AGateType ==
    {"ANone", "AAdd", "ASub", "AMul", "ADiv", "AEq", "ANeq", "ALEq", "AGEq", "ALt", "AGt"}

\* circ.nodes of the raw circuits parsed: a party-A input carrying the whole
\* literal of input_a_names, a party-B input, a constant, the output signal and
\* a signal with one of the names listed inside that literal
Nodes ==
    << [id |-> 1, names |-> input_a_names, is_const |-> FALSE, const_value |-> 0],
       [id |-> 2, names |-> << <<"0.input_B">> >>, is_const |-> FALSE, const_value |-> 0],
       [id |-> 3, names |-> << >>, is_const |-> TRUE, const_value |-> 3],
       [id |-> 4, names |-> << <<"0.ip">> >>, is_const |-> FALSE, const_value |-> 0],
       [id |-> 5, names |-> << <<"0.w0">> >>, is_const |-> FALSE, const_value |-> 0] >>

NodeIds == {Nodes[k].id : k \in 1 .. Len(Nodes)}

\* the gate types drawn: the three an arm of the match names, and ASub for
\* the types no arm names
GateTypes == {"AAdd", "AMul", "ALt", "ASub"}

\* ArithmeticGate, its inputs being nodes of the circuit and its output a
\* signal that is not an input of a party
ArithmeticGate ==
    [gate_type : GateTypes, lh_input : NodeIds, rh_input : NodeIds, output : {4, 5}]

RECURSIVE GateLists(_)
GateLists(n) ==
    IF n = 0 THEN {<< >>}
    ELSE GateLists(n - 1)
         \cup {Append(l, g) : l \in {m \in GateLists(n - 1) : Len(m) = n - 1},
                              g \in ArithmeticGate}

\* RawCircuit::get_node_by_id(id).unwrap(), the node being in circ.nodes
get_node_by_id(id) ==
    Nodes[CHOOSE k \in 1 .. Len(Nodes) :
              /\ Nodes[k].id = id
              /\ \A j \in 1 .. (k - 1) : Nodes[j].id # id]

\* the number of pushes the loops over the names of a node and over a list of
\* patterns make: one for every pair (name_v, pattern) with name_v.contains(pattern)
MatchCount(names, patterns) ==
    Cardinality({pr \in (1 .. Len(names)) \X (1 .. Len(patterns)) :
                    contains(names[pr[1]], patterns[pr[2]])})

\* Vec::push(id), n times
RECURSIVE PushN(_, _, _)
PushN(vec, id, n) == IF n = 0 THEN vec ELSE PushN(Append(vec, id), id, n - 1)

\* the wire the builder hands out next
NewRepr(b) == b.inputs + Len(b.gates) + 1

\* builder.add_input::<u32>()
add_input(b) == [b EXCEPT !.inputs = @ + 1]

\* add / mul / cmul on the builder state: the gate is appended
AppendGate(b, op, x, y) ==
    [b EXCEPT !.gates = Append(@, [op |-> op, x |-> x, y |-> y, out |-> NewRepr(b)])]

\* HashMap::insert
Insert(map, k, v) == [x \in DOMAIN map \cup {k} |-> IF x = k THEN v ELSE map[x]]

\* the match on (lhs, rhs) and on gate.gate_type: the call made on the builder,
\* nothing, or the panic
GateArm(gate_type, lhs, rhs) ==
    IF lhs.tag = "Const" /\ rhs.tag = "Const"
    THEN [kind |-> "panic",
          msg |-> "Unsupported operation for two const values. Consider pre calculation."]
    ELSE IF lhs.tag = "Const" \/ rhs.tag = "Const"
    THEN LET v == IF lhs.tag = "Var" THEN lhs.v ELSE rhs.v
             c == IF lhs.tag = "Const" THEN lhs.c ELSE rhs.c
         IN IF gate_type = "AMul" THEN [kind |-> "call", op |-> "cmul", x |-> v, y |-> c]
            ELSE IF gate_type = "AAdd" THEN [kind |-> "call", op |-> "cmul", x |-> v, y |-> c]
            ELSE [kind |-> "panic", msg |-> "This gate type not supported yet."]
    ELSE IF gate_type = "AAdd" THEN [kind |-> "call", op |-> "add", x |-> lhs.v, y |-> rhs.v]
    ELSE IF gate_type = "AMul" THEN [kind |-> "call", op |-> "mul", x |-> lhs.v, y |-> rhs.v]
    ELSE IF gate_type = "ALt" THEN [kind |-> "none"]
    ELSE [kind |-> "panic", msg |-> "This gate type not supported yet."]

\* parse_raw_circuit is called on a raw circuit of at most MaxGates gates
InitParse ==
    /\ store = << >>
    /\ colls = << >>
    /\ nNew = 0
    /\ nMade = 0
    /\ origin = << >>
    /\ ret = [op |-> "init"]
    /\ circ_gates \in GateLists(MaxGates)
    /\ gi = 1
    /\ config = [input_a_vars |-> << >>, input_b_vars |-> << >>, outputs |-> << >>]
    /\ used_vars = << >>
    /\ builder = [inputs |-> 0, gates |-> << >>, outputs |-> << >>]
    /\ output = << >>
    /\ o = 0
    /\ status = "loop"

\* one iteration of `for gate in circ.gates.iter()`
ParseGate ==
    /\ status = "loop"
    /\ gi <= Len(circ_gates)
    /\ LET gate == circ_gates[gi]
           lhs_var == get_node_by_id(gate.lh_input)
           rhs_var == get_node_by_id(gate.rh_input)
           a1 == PushN(config.input_a_vars, lhs_var.id,
                       MatchCount(lhs_var.names, input_a_names))
           b1 == PushN(config.input_b_vars, lhs_var.id,
                       MatchCount(lhs_var.names, input_b_names))
           o1 == PushN(config.outputs, lhs_var.id,
                       MatchCount(lhs_var.names, output_names))
           b2 == PushN(b1, rhs_var.id,
                       MatchCount(rhs_var.names, input_a_names)
                           + MatchCount(rhs_var.names, input_b_names))
           o2 == PushN(o1, rhs_var.id, MatchCount(rhs_var.names, output_names))
           newL == ~lhs_var.is_const /\ gate.lh_input \notin DOMAIN used_vars
           bl == IF newL THEN add_input(builder) ELSE builder
           ul == IF newL THEN Insert(used_vars, gate.lh_input, NewRepr(builder))
                 ELSE used_vars
           lhs == IF lhs_var.is_const THEN [tag |-> "Const", c |-> lhs_var.const_value]
                  ELSE [tag |-> "Var", v |-> ul[gate.lh_input]]
           newR == ~rhs_var.is_const /\ gate.rh_input \notin DOMAIN ul
           br == IF newR THEN add_input(bl) ELSE bl
           ur == IF newR THEN Insert(ul, gate.rh_input, NewRepr(bl)) ELSE ul
           rhs == IF rhs_var.is_const THEN [tag |-> "Const", c |-> rhs_var.const_value]
                  ELSE [tag |-> "Var", v |-> ur[gate.rh_input]]
           arm == GateArm(gate.gate_type, lhs, rhs)
       IN /\ config' = [input_a_vars |-> a1, input_b_vars |-> b2, outputs |-> o2]
          /\ IF arm.kind = "call"
             THEN /\ builder' = AppendGate(br, arm.op, arm.x, arm.y)
                  /\ used_vars' = Insert(ur, gate.output, NewRepr(br))
                  /\ o' = gate.output
                  /\ output' = <<NewRepr(br)>>
                  /\ gi' = gi + 1
                  /\ UNCHANGED status
             ELSE IF arm.kind = "none"
             THEN /\ builder' = br
                  /\ used_vars' = ur
                  /\ gi' = gi + 1
                  /\ UNCHANGED <<o, output, status>>
             ELSE /\ builder' = br
                  /\ used_vars' = ur
                  /\ status' = arm.msg
                  /\ UNCHANGED <<o, output, gi>>
    /\ UNCHANGED <<circ_gates, heapVars>>

\* after the loop: the panic on no output, or add_output and build
ParseFinish ==
    /\ status = "loop"
    /\ gi > Len(circ_gates)
    /\ IF output = << >>
       THEN /\ status' = "Output is not defined"
            /\ UNCHANGED builder
       ELSE /\ builder' = [builder EXCEPT !.outputs = Append(@, output[1])]
            /\ status' = "built"
    /\ UNCHANGED <<circ_gates, gi, config, used_vars, output, o, heapVars>>

NextParse ==
    \/ ParseGate
    \/ ParseFinish

SpecParse == InitParse /\ [][NextParse]_vars

\* ------------------------------------------------------------- properties
\* the names ret.op takes for the BitXor impls on Labels<N, Full>
FullXorOps == {"Full ^ Full", "&Full ^ &Full", "Full ^ &Full", "&Full ^ Full"}

\* the names ret.op takes for the BitXor impls on Labels<N, Active>
ActiveXorOps == {"Active ^ Active", "&Active ^ &Active", "Active ^ &Active", "&Active ^ Active"}

\* plaintext XOR of two values of N bits
PlainXor(x, y) == XorBits(x, y, N)

\* wire i of active carries the low or the high label of wire i of full
WireOk(full, active, i) ==
    \/ active.labels[i] = full.labels[i]
    \/ active.labels[i] = BlockXor(full.labels[i], full.state.delta)

\* C1: verify returns Ok exactly when every wire of the active collection
\* carries the low label or the low label XOR delta of the Full collection,
\* and returns InvalidActiveEncoding in every other case.
C1_VerifyExact ==
    ret.op = "verify" =>
        IF \A i \in Wires : WireOk(ret.self, ret.rhs, i)
        THEN ret.out = "Ok"
        ELSE ret.out = "InvalidActiveEncoding"

\* C1 witness: verify rejected a collection whose first wire carries the high
\* label and whose last wire carries a foreign one.
C1_Witness ==
    /\ ret.op = "verify"
    /\ ret.out = "InvalidActiveEncoding"
    /\ ret.rhs.labels[0] = BlockXor(ret.self.labels[0], ret.self.state.delta)
    /\ ~WireOk(ret.self, ret.rhs, N - 1)

\* C2: verifying a selection of the same Full collection returns Ok, for
\* every plaintext x.
C2_VerifyAcceptsSelected ==
    (ret.op = "verify" /\ \E x \in Plain : ret.rhs = select(ret.self, x))
        => ret.out = "Ok"

\* C2 witness: verify has run on a collection made by select from the same
\* Full collection, with a plaintext that has bit 0 set and another bit clear.
C2_Witness ==
    /\ ret.op = "verify"
    /\ origin[ret.rhsIx] = "select"
    /\ \E x \in Plain :
        /\ Bit(x, 0) = 1
        /\ \E i \in Wires : Bit(x, i) = 0
        /\ ret.rhs = select(ret.self, x)
        /\ ret.rhs # select(ret.self, 0)
    /\ ret.out = "Ok"

\* C7: the Delta returned by Delta::random has least significant bit 1,
\* whatever block the random source produced; so has the Delta of every
\* Full collection.
C7_DeltaLsb ==
    /\ ret.op = "Delta::random" => lsb(ret.out) = 1
    /\ \A k \in Handles : IsFull(colls[k]) => lsb(colls[k].state.delta) = 1

\* C7 witness: Delta::random has returned for a drawn block whose least
\* significant bit was 0.
C7_Witness ==
    /\ ret.op = "Delta::random"
    /\ lsb(ret.rng) = 0
    /\ ret.out # ret.rng

\* C3: the XOR of two selections of one Full value is the selection of the
\* XOR of the plaintexts: F.select(x) ^ F.select(y) = F.select(x XOR y).
C3_FreeXorSelect ==
    ret.op \in ActiveXorOps =>
        \A k \in Handles : \A x, y \in Plain :
            (/\ IsFull(colls[k])
             /\ ret.self = select(Val(colls[k]), x)
             /\ ret.rhs = select(Val(colls[k]), y))
                => ret.out = select(Val(colls[k]), PlainXor(x, y))

\* C3 as amended: the low labels cancel in the XOR of two selections of one
\* Full value, so wire i of F.select(x) ^ F.select(y) is wire i of
\* F.select(x XOR y) XORed with the low label of F on wire i (and the two
\* sides of C3 agree when every low label of F is zero).
C3_FreeXorSelectAmended ==
    ret.op \in ActiveXorOps =>
        \A k \in Handles : \A x, y \in Plain :
            LET F == Val(colls[k]) IN
            (IsFull(colls[k]) /\ ret.self = select(F, x) /\ ret.rhs = select(F, y))
                => /\ ret.out.state = ActiveState
                   /\ \A i \in Wires :
                        ret.out.labels[i] =
                            BlockXor(select(F, PlainXor(x, y)).labels[i], F.labels[i])
                   /\ (\A i \in Wires : F.labels[i] = 0)
                        => ret.out = select(F, PlainXor(x, y))

\* C3 witness: the scenario F.select(1) ^ F.select(2) with F a live Full
\* collection whose low labels are not zero: the result is not F.select(3).
C3_Witness ==
    /\ ret.op \in ActiveXorOps
    /\ \E k \in Handles :
        /\ IsFull(colls[k])
        /\ \A i \in Wires : store[colls[k].labels][i] # 0
        /\ ret.self = select(Val(colls[k]), 1)
        /\ ret.rhs = select(Val(colls[k]), 2)
        /\ ret.out # select(Val(colls[k]), 3)
        /\ ret.out # ret.self
        /\ ret.out # ret.rhs

\* C4: decoding a selection with the decoding of the same Full value, whose
\* Delta has least significant bit 1, returns the selected plaintext.
C4_RoundTrip ==
    ret.op = "decode" =>
        \A k \in Handles : \A x \in Plain :
            LET F == Val(colls[k]) IN
            (/\ IsFull(colls[k])
             /\ lsb(F.state.delta) = 1
             /\ ret.self = select(F, x)
             /\ ret.decoding = decoding(F))
                => ret.out = x

\* C4 witness: decode has returned a plaintext with bit 0 set from the
\* selection of a live Full collection and that collection's decoding.
C4_Witness ==
    /\ ret.op = "decode"
    /\ \E k \in Handles : \E x \in Plain :
        /\ IsFull(colls[k])
        /\ Bit(x, 0) = 1
        /\ ret.self = select(Val(colls[k]), x)
        /\ ret.decoding = decoding(Val(colls[k]))
        /\ \E i \in Wires : ret.decoding[i]
        /\ ret.out = x

\* C5: a Full XOR that produces a result has operands sharing one Delta, the
\* result carries that Delta and the wirewise XOR of the low labels; operands
\* with different Deltas are rejected.
C5_FullXorSharedDelta ==
    ret.op \in FullXorOps =>
        /\ ret.self.state.delta = ret.rhs.state.delta
        /\ ret.out.state = FullState(ret.rhs.state.delta)
        /\ \A i \in Wires :
            ret.out.labels[i] = BlockXor(ret.self.labels[i], ret.rhs.labels[i])

\* C6: XOR on label collections is commutative: the result of self ^ rhs
\* equals rhs ^ self as a whole collection, labels and state.
C6_XorCommutes ==
    /\ ret.op \in FullXorOps => ret.out = FullBitXor(ret.rhs, ret.self)
    /\ ret.op \in ActiveXorOps => ret.out = ActiveBitXor(ret.rhs, ret.self)

\* C8: every pair (low, high) yielded by iter_blocks on a Full collection,
\* built with a Delta of Delta::random or made by Full XORs, has
\* high = low XOR delta and LSB(high) = LSB(low) XOR 1.
C8_PointAndPermute ==
    ret.op = "iter_blocks" =>
        \A i \in Wires :
            /\ ret.out[i][1] = ret.self.labels[i]
            /\ ret.out[i][2] = BlockXor(ret.out[i][1], colls[ret.selfIx].state.delta)
            /\ lsb(ret.out[i][2]) = 1 - lsb(ret.out[i][1])

\* C8 witness: iter_blocks has run on a collection made by a Full XOR.
C8_Witness ==
    /\ ret.op = "iter_blocks"
    /\ origin[ret.selfIx] = "xor"
    /\ \E i, j \in Wires : lsb(ret.out[i][1]) # lsb(ret.out[j][1])

\* the number of Full handles in a sequence of handles
FullCount(cs) == Cardinality({k \in 1 .. Len(cs) : IsFull(cs[k])})

C10_Frame ==
    [][ret'.op \in {"verify"} \cup FullXorOps \cup ActiveXorOps
        => /\ \A a \in DOMAIN store \cap DOMAIN store' : store'[a] = store[a]
           /\ IF ret'.op = "verify"
              THEN colls' = colls /\ store' = store
              ELSE /\ Len(colls') = Len(colls) - Cardinality(ret'.moved) + 1
                   /\ SubSeq(colls', 1, Len(colls') - 1) = Without(colls, ret'.moved)
                   /\ \A k \in Handles \ ret'.moved :
                        /\ colls[k].labels \in DOMAIN store'
                        /\ store'[colls[k].labels] = store[colls[k].labels]
                   /\ colls'[Len(colls')].labels \notin DOMAIN store
                   /\ store'[colls'[Len(colls')].labels] = ret'.out.labels
      ]_vars

\* C10 witness: an operand taken by value by XOR had a live clone, which is
\* still alive and still holds the operand's labels in the shared array.
C10_Witness ==
    /\ ret.op \in FullXorOps \cup ActiveXorOps
    /\ ret.selfIx \in ret.moved
    /\ \E k \in Handles :
        /\ colls[k].labels = ret.selfArc
        /\ store[ret.selfArc] = ret.self.labels
    /\ colls[Len(colls)].labels # ret.selfArc
    /\ ret.out.labels # ret.self.labels

\* C11: Free-XOR across wires: for Full collections A and B sharing one Delta
\* and all plaintexts x and y, A.select(x) ^ B.select(y) equals
\* (A ^ B).select(x XOR y), and (A ^ B).verify(A.select(x) ^ B.select(y)) is Ok.
C11_FreeXorGate ==
    ret.op \in (ActiveXorOps \cup {"verify"}) =>
        \A a, b \in Handles :
            (/\ IsFull(colls[a]) /\ IsFull(colls[b])
             /\ colls[a].state.delta = colls[b].state.delta)
            => LET A == Val(colls[a])
                   B == Val(colls[b])
                   AB == FullBitXor(A, B)
               IN \A x, y \in Plain :
                   LET Ax == select(A, x)
                       By == select(B, y)
                   IN /\ (ret.op \in ActiveXorOps /\ ret.self = Ax /\ ret.rhs = By)
                          => ret.out = select(AB, PlainXor(x, y))
                      /\ (/\ ret.op = "verify"
                          /\ ret.self = AB
                          /\ ret.rhs = ActiveBitXor(Ax, By))
                          => ret.out = "Ok"

\* C11 witness: with A and B alive under one Delta, the garbler's A ^ B has
\* verified the evaluator's XOR of a selection of A and a selection of B, the
\* plaintexts having different bits set.
C11_Witness ==
    /\ ret.op = "verify"
    /\ origin[ret.selfIx] = "xor"
    /\ origin[ret.rhsIx] = "xor"
    /\ origin[1] = "new" /\ origin[2] = "new"
    /\ ret.self = FullBitXor(Val(colls[1]), Val(colls[2]))
    /\ ret.rhs = ActiveBitXor(select(Val(colls[1]), 1), select(Val(colls[2]), 2))
    /\ ret.rhs # select(ret.self, 0)
    /\ store[1] # store[2]
    /\ ret.out = "Ok"

\* the gate types the parser has an arm for
SupportedTypes == {"AAdd", "AMul", "ALt"}

\* the elements of a Vec
Elems(vec) == {vec[k] : k \in 1 .. Len(vec)}

\* C12: for a gate list of supported gate types (AAdd, AMul, ALt), once the
\* loop is over, the single output of the built circuit is the output of the
\* last gate of the list; when no gate has produced an output the call panics
\* with "Output is not defined".
C12_LastGateOutput ==
    LET n == Len(circ_gates)
    IN (/\ status \in {"built", "Output is not defined"}
        /\ \A k \in 1 .. n : circ_gates[k].gate_type \in SupportedTypes)
        => IF output = << >>
           THEN status = "Output is not defined"
           ELSE /\ status = "built"
                /\ o = circ_gates[n].output
                /\ circ_gates[n].output \in DOMAIN used_vars
                /\ output = <<used_vars[circ_gates[n].output]>>
                /\ builder.gates[Len(builder.gates)].out = output[1]
                /\ builder.outputs = output

\* C13: for every gate parsed, an operand node (left or right) with a name
\* matching a party-A input name is in config.input_a_vars, one matching a
\* party-B input name in config.input_b_vars, one matching an output name in
\* config.outputs; and no party-A variable is in config.input_b_vars.
C13_PartyVars ==
    /\ \A k \in 1 .. (gi - 1) :
        \A id \in {circ_gates[k].lh_input, circ_gates[k].rh_input} :
            LET names == get_node_by_id(id).names
            IN /\ MatchCount(names, input_a_names) > 0 => id \in Elems(config.input_a_vars)
               /\ MatchCount(names, input_b_names) > 0 => id \in Elems(config.input_b_vars)
               /\ MatchCount(names, output_names) > 0 => id \in Elems(config.outputs)
    /\ \A id \in Elems(config.input_b_vars) :
        MatchCount(get_node_by_id(id).names, input_a_names) = 0

\* C14: every gate is translated by its type: AAdd on two variables is an add
\* and AMul a mul; with one constant operand AAdd is the addition of the
\* constant and AMul the cmul by the constant; two constant operands, or a
\* gate type that is not supported, is a panic.
C14_GateTranslation ==
    [][(status = "loop" /\ gi <= Len(circ_gates) /\ (gi' # gi \/ status' # status))
        => LET gate == circ_gates[gi]
               lhs_var == get_node_by_id(gate.lh_input)
               rhs_var == get_node_by_id(gate.rh_input)
               panicked == status' \notin {"loop", "built"}
               g == builder'.gates[Len(builder'.gates)]
           IN IF lhs_var.is_const /\ rhs_var.is_const THEN panicked
              ELSE IF gate.gate_type \notin SupportedTypes THEN panicked
              ELSE IF gate.gate_type = "ALt" THEN TRUE
              ELSE /\ ~panicked
                   /\ Len(builder'.gates) = Len(builder.gates) + 1
                   /\ g.out = used_vars'[gate.output]
                   /\ IF lhs_var.is_const \/ rhs_var.is_const
                      THEN /\ g.op = (IF gate.gate_type = "AAdd" THEN "cadd" ELSE "cmul")
                           /\ g.y = (IF lhs_var.is_const THEN lhs_var.const_value
                                     ELSE rhs_var.const_value)
                      ELSE g.op = (IF gate.gate_type = "AAdd" THEN "add" ELSE "mul")]_vars
====
